---- MODULE Spec2Model ----
(***************************************************************************)
(* pngme: the PNG chunk codec (chunk_type.rs, chunk.rs), the container     *)
(* (png.rs) and the commands that act on a PNG file (commands.rs).         *)
(*                                                                         *)
(* A byte is a number in 0..255.  A u32 is kept as two 16-bit limbs        *)
(* [hi, lo] (value hi * 2^16 + lo), so that every value up to 2^32 - 1 is  *)
(* represented and the width of the arithmetic is explicit.                *)
(***************************************************************************)
EXTENDS Integers, Sequences, FiniteSets, TLC

VARIABLES
    fs,        \* commands: the file system, file name -> bytes (or NoFile)
    last,      \* commands: what the last command did (arguments, result)
    arr,       \* chunk codec: the byte slice handed to Chunk::try_from
    res,       \* chunk codec: the result of the last codec operation
    text,      \* chunk type: the string handed to ChunkType::from_str
    tres       \* chunk type: the result of the last chunk type operation

vars == <<fs, last, arr, res, text, tres>>

----------------------------------------------------------------------------
(* Sequences of bytes *)

Limb == 65536

Take(s, n) == SubSeq(s, 1, IF n < Len(s) THEN n ELSE Len(s))

Drop(s, n) == SubSeq(s, n + 1, Len(s))

\* F of the value of e: a `let` whose value is computed once, before its use
Bind(e, F(_)) == CHOOSE y \in {F(x) : x \in {e}} : TRUE

RECURSIVE Concat(_)
Concat(ss) == IF ss = << >> THEN << >> ELSE Head(ss) \o Concat(Tail(ss))

----------------------------------------------------------------------------
(* u32 arithmetic *)

U32Zero == [hi |-> 0, lo |-> 0]

\* len *= 256; len += byte   (u32; the product wraps at 2^32)
U32Mul256Add(x, b) ==
    [hi |-> ((x.hi * 256) + (x.lo \div 256)) % Limb,
     lo |-> ((x.lo % 256) * 256) + b]

\* whether x * 256 exceeds the u32 range
U32Mul256Overflows(x) == x.hi \div 256 > 0

\* x + n for a small n: the wrapped sum and whether it overflowed
U32AddSmall(x, n) ==
    LET lo == x.lo + n
        hi == x.hi + (lo \div Limb)
    IN  [val |-> [hi |-> hi % Limb, lo |-> lo % Limb], overflow |-> hi >= Limb]

\* u32::to_be_bytes
ToBeBytes(x) == <<x.hi \div 256, x.hi % 256, x.lo \div 256, x.lo % 256>>

\* usize as u32 (truncating cast)
UsizeAsU32(n) == [hi |-> (n \div Limb) % Limb, lo |-> n % Limb]

\* n < x, for a count n and a u32 x
CountLessThan(n, x) ==
    \/ n \div Limb < x.hi
    \/ n \div Limb = x.hi /\ n % Limb < x.lo

----------------------------------------------------------------------------
(* CRC-32/IEEE (crc::crc32::checksum_ieee): reflected, polynomial          *)
(* 0xEDB88320, initial value and final xor 0xFFFFFFFF, computed a byte at  *)
(* a time with the table of the 256 remainders.  The register is a u32 in  *)
(* two limbs.                                                              *)

\* 0xEDB88320
CrcPoly == [hi |-> 60856, lo |-> 33568]

\* 0xFFFFFFFF
U32Ones == [hi |-> 65535, lo |-> 65535]

\* bitwise xor of two numbers of n bits
RECURSIVE BitXor(_, _, _)
BitXor(a, b, n) ==
    IF n = 0 THEN 0
    ELSE ((a + b) % 2) + 2 * BitXor(a \div 2, b \div 2, n - 1)

\* xor of two bytes, tabulated ("@@ << >>" makes the table an explicit one)
Xor8 == [a \in 0..255 |-> [b \in 0..255 |-> BitXor(a, b, 8)] @@ << >>] @@ << >>

Xor16(a, b) == (Xor8[a \div 256][b \div 256] * 256) + Xor8[a % 256][b % 256]

U32Xor(x, y) == [hi |-> Xor16(x.hi, y.hi), lo |-> Xor16(x.lo, y.lo)]

U32Shr1(x) == [hi |-> x.hi \div 2, lo |-> (x.lo \div 2) + ((x.hi % 2) * 32768)]

U32Shr8(x) == [hi |-> x.hi \div 256, lo |-> (x.lo \div 256) + ((x.hi % 256) * 256)]

CrcShift(r) == IF r.lo % 2 = 1 THEN U32Xor(U32Shr1(r), CrcPoly) ELSE U32Shr1(r)

RECURSIVE CrcShifts(_, _)
CrcShifts(r, n) == IF n = 0 THEN r ELSE CrcShifts(CrcShift(r), n - 1)

\* the table: entry b is b after 8 shifts
CrcTable == [b \in 0..255 |-> CrcShifts([hi |-> 0, lo |-> b], 8)] @@ << >>

\* (r >> 8) ^ table[(r as u8) ^ b]
CrcByte(r, b) == U32Xor(U32Shr8(r), CrcTable[Xor8[r.lo % 256][b]])

\* the register after bytes[i], bytes[i + 1], ... have gone through it
RECURSIVE CrcUpdate(_, _, _)
CrcUpdate(r, bytes, i) ==
    IF i > Len(bytes) THEN r
    ELSE Bind(CrcByte(r, bytes[i]), LAMBDA n : CrcUpdate(n, bytes, i + 1))

ChecksumIeee(bytes) ==
    Bind(bytes, LAMBDA b : U32Xor(CrcUpdate(U32Ones, b, 1), U32Ones))

----------------------------------------------------------------------------
(* Strings.  A string is a sequence of chars (Unicode scalar values);      *)
(* str::as_bytes is its UTF-8 encoding, and `u8 as char` is the char whose *)
(* scalar value is the byte.                                               *)

Utf8Char(c) ==
    IF c < 128 THEN <<c>>
    ELSE IF c < 2048 THEN <<192 + (c \div 64), 128 + (c % 64)>>
    ELSE <<224 + (c \div 4096), 128 + ((c \div 64) % 64), 128 + (c % 64)>>

RECURSIVE StrAsBytes(_)
StrAsBytes(s) == IF s = << >> THEN << >> ELSE Utf8Char(Head(s)) \o StrAsBytes(Tail(s))

ByteAsChar(b) == b

----------------------------------------------------------------------------
(* chunk_type.rs.  A ChunkType is the tuple of its four bytes.  A Result   *)
(* is [ok |-> TRUE, val |-> v] or [ok |-> FALSE, err |-> message].         *)

Ok(v) == [ok |-> TRUE, val |-> v]

Err(e) == [ok |-> FALSE, err |-> e]

FIFTH_BIT == 32

\* bitwise and of two numbers of n bits
RECURSIVE BitAnd(_, _, _)
BitAnd(a, b, n) ==
    IF n = 0 THEN 0
    ELSE ((a % 2) * (b % 2)) + 2 * BitAnd(a \div 2, b \div 2, n - 1)

bytes(t) == <<t[1], t[2], t[3], t[4]>>

is_critical(t) == BitAnd(t[1], FIFTH_BIT, 8) = 0

is_public(t) == BitAnd(t[2], FIFTH_BIT, 8) = 0

is_reserved_bit_valid(t) == BitAnd(t[3], FIFTH_BIT, 8) = 0

\* is_safe_to_copy with the test of the bit inverted
is_safe_to_copy_inverted(t) == BitAnd(t[4], FIFTH_BIT, 8) = 0

is_safe_to_copy(t) == BitAnd(t[4], FIFTH_BIT, 8) # 0

is_valid(t) == is_reserved_bit_valid(t)

\* 'a' = 97, 'z' = 122, 'A' = 65, 'Z' = 90
byte_is_valid(b) == (b >= 97 /\ b <= 122) \/ (b >= 65 /\ b <= 90)

from_arr(a) ==
    IF ~(byte_is_valid(a[1]) /\ byte_is_valid(a[2])
            /\ byte_is_valid(a[3]) /\ byte_is_valid(a[4]))
    THEN Err("Invalid chunk byte value")
    ELSE Ok(<<a[1], a[2], a[3], a[4]>>)

\* impl TryFrom<[u8; 4]> for ChunkType
ChunkTypeTryFrom(a) == from_arr(a)

\* from_str counting the chars of the string instead of its bytes
from_str_chars(s) ==
    LET a == StrAsBytes(s)
    IN  IF Len(s) # 4 THEN Err("Invalid chunk length")
        ELSE from_arr(SubSeq(a, 1, 4))

\* impl FromStr for ChunkType
from_str(s) ==
    LET a == StrAsBytes(s)
    IN  IF Len(a) # 4 THEN Err("Invalid chunk length")
        ELSE from_arr(SubSeq(a, 1, 4))

\* impl Display for ChunkType
ChunkTypeToString(t) ==
    <<ByteAsChar(t[1]), ByteAsChar(t[2]), ByteAsChar(t[3]), ByteAsChar(t[4])>>

----------------------------------------------------------------------------
(* chunk.rs.  A Chunk is [length, chunk_type, data, crc].                  *)

\* calc_crc over the data alone
calc_crc_data_only(chunk_type, data) == ChecksumIeee(data)

calc_crc(chunk_type, data) == ChecksumIeee(bytes(chunk_type) \o data)

\* Chunk::new that leaves the type bytes out of the crc
ChunkNew_crc_of_data(chunk_type, data) ==
    [length |-> UsizeAsU32(Len(data)),
     chunk_type |-> chunk_type,
     data |-> data,
     crc |-> ChecksumIeee(data)]

ChunkNew(chunk_type, data) ==
    [length |-> UsizeAsU32(Len(data)),
     chunk_type |-> chunk_type,
     data |-> data,
     crc |-> calc_crc(chunk_type, data)]

data_as_string(c) == Ok([i \in 1..Len(c.data) |-> ByteAsChar(c.data[i])])

\* u32::to_le_bytes
ToLeBytes(x) == <<x.lo % 256, x.lo \div 256, x.hi % 256, x.hi \div 256>>

\* as_bytes writing the length little-endian
as_bytes_le_length(c) ==
    ToLeBytes(c.length) \o bytes(c.chunk_type) \o c.data \o ToBeBytes(c.crc)

\* as_bytes that leaves the data out
as_bytes_without_data(c) ==
    ToBeBytes(c.length) \o bytes(c.chunk_type) \o ToBeBytes(c.crc)

as_bytes(c) ==
    ToBeBytes(c.length) \o bytes(c.chunk_type) \o c.data \o ToBeBytes(c.crc)

\* the u32 read from the n bytes of a that follow position i:
\* x *= 256; x += byte, for each of them
RECURSIVE ReadU32(_, _, _, _)
ReadU32(a, i, n, x) ==
    IF n = 0 THEN x ELSE ReadU32(a, i + 1, n - 1, U32Mul256Add(x, a[i + 1]))

\* the number a u32 stands for, where it is known to be small
U32AsCount(x) == (x.hi * Limb) + x.lo

get_total_length_from_bytes(a) ==
    IF Len(a) < 4 THEN Err("ran out of bytes reading length")
    ELSE LET sum == U32AddSmall(ReadU32(a, 0, 4, U32Zero), 12)
         IN  IF sum.overflow THEN [ok |-> FALSE, err |-> "overflow", wrapped |-> sum.val]
             ELSE Ok(sum.val)

\* try_from that validates the type bytes only after every field was read
ChunkTryFrom_late_type_check(a) ==
    IF Len(a) < 4 THEN Err("ran out of bytes reading length")
    ELSE IF Len(a) < 8 THEN Err("ran out of bytes reading chunk type")
    ELSE
      LET len == ReadU32(a, 0, 4, U32Zero)
          chunk_type == ChunkTypeTryFrom(SubSeq(a, 5, 8))
      IN
      IF CountLessThan(Len(a) - 8, len) THEN Err("ran out of bytes reading chunk data")
      ELSE
        LET n == U32AsCount(len)
            data == SubSeq(a, 9, 8 + n)
        IN
        IF Len(a) - 8 - n < 4 THEN Err("ran out of bytes reading crc")
        ELSE IF ~chunk_type.ok THEN Err("error creating chunk type")
        ELSE
          LET crc == ReadU32(a, 8 + n, 4, U32Zero)
          IN  IF calc_crc(chunk_type.val, data) # crc THEN Err("invalid crc")
              ELSE Ok([length |-> len, chunk_type |-> chunk_type.val,
                       data |-> data, crc |-> crc])

\* try_from that takes the stored crc without comparing it
ChunkTryFrom_crc_unchecked(a) ==
    IF Len(a) < 4 THEN Err("ran out of bytes reading length")
    ELSE IF Len(a) < 8 THEN Err("ran out of bytes reading chunk type")
    ELSE
      LET len == ReadU32(a, 0, 4, U32Zero)
          chunk_type == ChunkTypeTryFrom(SubSeq(a, 5, 8))
      IN
      IF ~chunk_type.ok THEN Err("error creating chunk type")
      ELSE IF CountLessThan(Len(a) - 8, len) THEN Err("ran out of bytes reading chunk data")
      ELSE
        LET n == U32AsCount(len)
            data == SubSeq(a, 9, 8 + n)
        IN
        IF Len(a) - 8 - n < 4 THEN Err("ran out of bytes reading crc")
        ELSE Ok([length |-> len, chunk_type |-> chunk_type.val,
                 data |-> data, crc |-> ReadU32(a, 8 + n, 4, U32Zero)])

\* impl TryFrom<&[u8]> for Chunk
ChunkTryFrom(a) ==
    IF Len(a) < 4 THEN Err("ran out of bytes reading length")
    ELSE IF Len(a) < 8 THEN Err("ran out of bytes reading chunk type")
    ELSE
      LET len == ReadU32(a, 0, 4, U32Zero)
          chunk_type == ChunkTypeTryFrom(SubSeq(a, 5, 8))
      IN
      IF ~chunk_type.ok THEN Err("error creating chunk type")
      ELSE IF CountLessThan(Len(a) - 8, len) THEN Err("ran out of bytes reading chunk data")
      ELSE
        LET n == U32AsCount(len)
            data == SubSeq(a, 9, 8 + n)
        IN
        IF Len(a) - 8 - n < 4 THEN Err("ran out of bytes reading crc")
        ELSE
          LET crc == ReadU32(a, 8 + n, 4, U32Zero)
          IN  IF calc_crc(chunk_type.val, data) # crc THEN Err("invalid crc")
              ELSE Ok([length |-> len, chunk_type |-> chunk_type.val,
                       data |-> data, crc |-> crc])

----------------------------------------------------------------------------
(* png.rs.  A Png is [chunks |-> the sequence of its chunks]; its bytes are *)
(* the signature and then the bytes of each chunk, in order.               *)

Signature == <<137, 80, 78, 71, 13, 10, 26, 10>>

\* the chunks of b: one chunk is parsed at the start of what is left, its
\* total length gives where the next one starts, until nothing is left
RECURSIVE ParseChunks(_)
ParseChunks(b) ==
    IF b = << >> THEN Ok(<< >>)
    ELSE Bind(ChunkTryFrom(b), LAMBDA c :
         Bind(get_total_length_from_bytes(b), LAMBDA total :
            IF ~c.ok THEN c
            ELSE IF ~total.ok THEN Err(total.err)
            ELSE Bind(ParseChunks(Drop(b, U32AsCount(total.val))), LAMBDA rest :
                    IF ~rest.ok THEN rest ELSE Ok(<<c.val>> \o rest.val))))

\* impl TryFrom<&[u8]> for Png
PngTryFrom(b) ==
    IF Len(b) < 8 \/ SubSeq(b, 1, 8) # Signature THEN Err("bad signature")
    ELSE Bind(ParseChunks(Drop(b, 8)), LAMBDA cs :
            IF ~cs.ok THEN cs ELSE Ok([chunks |-> cs.val]))

PngAsBytes(png) ==
    Signature \o Concat([i \in 1..Len(png.chunks) |-> as_bytes(png.chunks[i])])

append_chunk(png, chunk) == [chunks |-> Append(png.chunks, chunk)]

\* the positions of the chunks of png whose type reads as the string t
Matching(png, t) ==
    {i \in 1..Len(png.chunks) : ChunkTypeToString(png.chunks[i].chunk_type) = t}

Min(S) == CHOOSE i \in S : \A j \in S : i <= j

\* Some(the first chunk of that type) or None
chunk_by_type(png, t) ==
    IF Matching(png, t) = {} THEN [some |-> FALSE]
    ELSE [some |-> TRUE, val |-> png.chunks[Min(Matching(png, t))]]

\* the first chunk of that type is taken out
remove_chunk(png, t) ==
    IF Matching(png, t) = {} THEN Err("chunk not found")
    ELSE LET i == Min(Matching(png, t))
         IN  Ok([chunks |-> SubSeq(png.chunks, 1, i - 1)
                                \o SubSeq(png.chunks, i + 1, Len(png.chunks))])

\* impl Display for Png: the type and the text of every chunk
PngToString(png) ==
    [i \in 1..Len(png.chunks) |->
        <<ChunkTypeToString(png.chunks[i].chunk_type), data_as_string(png.chunks[i]).val>>]

----------------------------------------------------------------------------
(* commands.rs.  A command reads the file system fs (file name -> bytes, or *)
(* NoFile) and gives the file system it leaves and a record of what it did: *)
(* its exit status, its message on stderr or its output on stdout, the Png  *)
(* it parsed and the Png it held at the end.                                *)

\* what the file system holds for a file that does not exist (no byte is -1)
NoFile == <<-1>>

read_file(f, filename) ==
    IF f[filename] = NoFile THEN Err(<<"Error opening file">>) ELSE Ok(f[filename])

write_file(f, filename, data) == [f EXCEPT ![filename] = data]

read_png_from_file(f, filename) ==
    LET contents == read_file(f, filename)
    IN  IF ~contents.ok THEN contents
        ELSE Bind(PngTryFrom(contents.val), LAMBDA png :
                IF ~png.ok THEN Err(<<"Error parsing PNG", png.err>>) ELSE png)

\* process::exit(1) after eprintln!; read is what read_png_from_file gave
Exit1(f, cmd, read, message) ==
    [fs |-> f,
     last |-> cmd @@ [exit |-> 1, stderr |-> message, before |-> f, read |-> read]]

\* the command returned; png is the Png it held at its end
Exit0(f, cmd, before, read, png, stdout) ==
    [fs |-> f,
     last |-> cmd @@ [exit |-> 0, stdout |-> stdout, before |-> before,
                      read |-> read, png |-> png]]

EncodeCmd(f, filename, chunk_type, msg, output_filename) ==
    LET cmd == [cmd |-> "encode", filename |-> filename, chunk_type |-> chunk_type,
                msg |-> msg, output_filename |-> output_filename]
        ty == from_str(chunk_type)
    IN  Bind(read_png_from_file(f, filename), LAMBDA read :
        IF ~read.ok THEN Exit1(f, cmd, read, read.err)
        ELSE IF ~ty.ok THEN Exit1(f, cmd, read, <<"Invalid chunk type", ty.err>>)
        ELSE Bind(ChunkNew(ty.val, StrAsBytes(msg)), LAMBDA chunk :
             Bind(append_chunk(read.val, chunk), LAMBDA png :
                Exit0(write_file(f, output_filename, PngAsBytes(png)),
                      cmd @@ [chunk |-> chunk], f, read, png, << >>))))

DecodeCmd(f, filename, chunk_type) ==
    LET cmd == [cmd |-> "decode", filename |-> filename, chunk_type |-> chunk_type]
    IN  Bind(read_png_from_file(f, filename), LAMBDA read :
        IF ~read.ok THEN Exit1(f, cmd, read, read.err)
        ELSE LET chunk == chunk_by_type(read.val, chunk_type)
             IN  IF ~chunk.some THEN Exit1(f, cmd, read, <<"Chunk type not found">>)
                 ELSE LET chunk_string == data_as_string(chunk.val)
                      IN  IF ~chunk_string.ok
                          THEN Exit1(f, cmd, read, <<"Error reading chunk data">>)
                          ELSE Exit0(f, cmd, f, read, read.val, chunk_string.val))

\* remove that does not write the file back
RemoveCmd_no_write(f, filename, chunk_type) ==
    LET cmd == [cmd |-> "remove", filename |-> filename, chunk_type |-> chunk_type]
    IN  Bind(read_png_from_file(f, filename), LAMBDA read :
        IF ~read.ok THEN Exit1(f, cmd, read, read.err)
        ELSE Bind(remove_chunk(read.val, chunk_type), LAMBDA removed :
                IF ~removed.ok
                THEN Exit1(f, cmd, read, <<"Error removing chunk", removed.err>>)
                ELSE Exit0(f, cmd, f, read, removed.val, << >>)))

RemoveCmd(f, filename, chunk_type) ==
    LET cmd == [cmd |-> "remove", filename |-> filename, chunk_type |-> chunk_type]
    IN  Bind(read_png_from_file(f, filename), LAMBDA read :
        IF ~read.ok THEN Exit1(f, cmd, read, read.err)
        ELSE Bind(remove_chunk(read.val, chunk_type), LAMBDA removed :
                IF ~removed.ok
                THEN Exit1(f, cmd, read, <<"Error removing chunk", removed.err>>)
                ELSE Exit0(write_file(f, filename, PngAsBytes(removed.val)),
                           cmd, f, read, removed.val, << >>)))

PrintCmd(f, filename) ==
    LET cmd == [cmd |-> "print", filename |-> filename]
    IN  Bind(read_png_from_file(f, filename), LAMBDA read :
        IF ~read.ok THEN Exit1(f, cmd, read, read.err)
        ELSE Exit0(f, cmd, f, read, read.val, PngToString(read.val)))

----------------------------------------------------------------------------
(* Inputs and bounds *)

\* the longest string handed to ChunkType::from_str
MaxStrLen == 5

\* chars of the strings: 'A', 'z', '1' and U+00E9 (two bytes in UTF-8)
Chars == {65, 122, 49, 233}

\* bytes of the arrays handed to ChunkType::try_from: the letters at the ends
\* of A-Z and a-z, the bytes next to them, and the ends of the byte range
TypeBytes == {0, 64, 65, 90, 91, 96, 97, 122, 123, 255}

RECURSIVE SeqsUpTo(_, _)
SeqsUpTo(S, n) ==
    IF n = 0 THEN {<< >>}
    ELSE LET shorter == SeqsUpTo(S, n - 1)
         IN  shorter \cup {Append(s, x) : s \in {t \in shorter : Len(t) = n - 1}, x \in S}

Strings == SeqsUpTo(Chars, MaxStrLen)

Arrays == [1..4 -> TypeBytes]

NoResult == [op |-> "none"]

----------------------------------------------------------------------------
(* Chunk types: the operations of chunk_type.rs applied to an input *)

IdleCommands == fs = << >> /\ last = NoResult

IdleChunk == arr = << >> /\ res = NoResult

IdleType == text = [kind |-> "none"] /\ tres = NoResult

TypeInit ==
    /\ IdleCommands
    /\ IdleChunk
    /\ text \in {[kind |-> "str", v |-> s] : s \in Strings}
                    \cup {[kind |-> "arr", v |-> a] : a \in Arrays}
    /\ tres = NoResult

FromStr ==
    /\ text.kind = "str"
    /\ tres' = [op |-> "from_str", in |-> text.v, out |-> from_str(text.v)]
    /\ UNCHANGED <<fs, last, arr, res, text>>

TryFromArr ==
    /\ text.kind = "arr"
    /\ tres' = [op |-> "try_from", in |-> text.v, out |-> ChunkTypeTryFrom(text.v)]
    /\ UNCHANGED <<fs, last, arr, res, text>>

\* every accessor of a constructed ChunkType
Inspect ==
    /\ tres.op \in {"from_str", "try_from"}
    /\ tres.out.ok
    /\ LET t == tres.out.val
       IN  tres' = [op |-> "inspect", in |-> tres.in, by |-> tres.op, ty |-> t,
                    out |-> [bytes |-> bytes(t),
                             string |-> ChunkTypeToString(t),
                             critical |-> is_critical(t),
                             public |-> is_public(t),
                             reserved_bit_valid |-> is_reserved_bit_valid(t),
                             safe_to_copy |-> is_safe_to_copy(t),
                             valid |-> is_valid(t)]]
    /\ UNCHANGED <<fs, last, arr, res, text>>

TypeNext == FromStr \/ TryFromArr \/ Inspect

SpecType == TypeInit /\ [][TypeNext]_vars

----------------------------------------------------------------------------
(* Chunks: the operations of chunk.rs applied to an input *)

\* the longest data of a chunk
MaxData == 2

DataBytes == {0, 255}

Datas == SeqsUpTo(DataBytes, MaxData)

\* "RuSt", "ABcd", "AZaz"
ChunkTypes == {<<82, 117, 83, 116>>, <<65, 66, 99, 100>>, <<65, 90, 97, 122>>}

\* bytes put in the place of a byte of a serialized chunk
SubstBytes == {0, 1, 255}

\* bytes that follow a serialized chunk in a slice
Trailers == {<<0>>, <<0, 0, 0, 0, 82, 117, 83, 116>>}

Prefixes(v) == {SubSeq(v, 1, k) : k \in 0..Len(v)}

Substitutions(v) ==
    {[v EXCEPT ![i] = x] : i \in 1..Len(v), x \in SubstBytes}

\* a serialized chunk as it is, cut short, followed by more bytes, or with one
\* byte replaced (and then possibly cut short)
Slices(v) ==
    Prefixes(v)
        \cup {v \o t : t \in Trailers}
        \cup UNION {Prefixes(w) : w \in Substitutions(v)}

\* the bytes of a chunk, put together field by field as the tests do:
\* length, type, data and crc of type and data, the numbers big-endian
WireChunk(t, d) ==
    <<0, 0, Len(d) \div 256, Len(d) % 256>> \o t \o d \o ToBeBytes(ChecksumIeee(t \o d))

ChunkSlices == UNION {Slices(WireChunk(t, d)) : t \in ChunkTypes, d \in Datas}

\* length fields at and around the largest length whose total fits a u32
\* (0xFFFFFFF3), and the length of a chunk of 2^16 bytes
LengthFields ==
    {<<255, 255, 255, 255>>, <<255, 255, 255, 244>>, <<255, 255, 255, 243>>,
     <<0, 1, 0, 0>>}

\* slices that start with such a length field
LengthSlices ==
    {l \o t : l \in LengthFields, t \in {<< >>, <<82, 117, 83, 116>>, <<82, 117, 83, 116, 0>>}}

ChunkInit ==
    /\ IdleCommands
    /\ IdleType
    /\ arr \in {[kind |-> "bytes", v |-> v] : v \in ChunkSlices \cup LengthSlices}
                   \cup {[kind |-> "parts", t |-> t, d |-> d] : t \in ChunkTypes, d \in Datas}
    /\ res = NoResult

\* Chunk::new
New ==
    /\ arr.kind = "parts"
    /\ res' = [op |-> "new", t |-> arr.t, d |-> arr.d, out |-> ChunkNew(arr.t, arr.d)]
    /\ UNCHANGED <<fs, last, arr, text, tres>>

\* Chunk::try_from on the slice; `of` is the chunk the slice was serialized
\* from, when it was
TryFrom ==
    /\ arr.kind = "bytes"
    /\ res' = [op |-> "try_from", in |-> arr.v, out |-> ChunkTryFrom(arr.v),
               of |-> IF res.op = "as_bytes" THEN <<res.by, res.chunk>> ELSE << >>]
    /\ UNCHANGED <<fs, last, arr, text, tres>>

\* Chunk::as_bytes on the chunk just made; the bytes become the slice
AsBytes ==
    /\ \/ res.op = "new"
       \/ res.op = "try_from" /\ res.out.ok
    /\ LET c == IF res.op = "new" THEN res.out ELSE res.out.val
       IN  /\ res' = [op |-> "as_bytes", chunk |-> c, by |-> res.op,
                      in |-> IF res.op = "try_from" THEN res.in ELSE << >>,
                      out |-> as_bytes(c)]
           /\ arr' = [kind |-> "bytes", v |-> as_bytes(c)]
    /\ UNCHANGED <<fs, last, text, tres>>

\* b with bit k flipped
FlipBit(b, k) == IF (b \div (2 ^ k)) % 2 = 1 THEN b - (2 ^ k) ELSE b + (2 ^ k)

\* one bit of a type or data byte of the serialized chunk is flipped, the
\* stored crc kept, and the slice parsed again
FlipAndParse ==
    /\ res.op = "as_bytes"
    /\ \E i \in 5..(8 + Len(res.chunk.data)), k \in 0..7 :
          LET flipped == [res.out EXCEPT ![i] = FlipBit(res.out[i], k)]
          IN  /\ arr' = [kind |-> "bytes", v |-> flipped]
              /\ res' = [op |-> "flip", chunk |-> res.chunk, pos |-> i, bit |-> k,
                         in |-> flipped, out |-> ChunkTryFrom(flipped)]
    /\ UNCHANGED <<fs, last, text, tres>>

\* what a call of get_total_length_from_bytes on a gives: `overhead + len`
\* beyond u32 panics in a build with overflow checks (debug) and wraps in a
\* build without them (release)
TotalLengthCall(a, overflow_checks) ==
    LET r == get_total_length_from_bytes(a)
    IN  IF r.ok THEN r
        ELSE IF r.err # "overflow" THEN r
        ELSE IF overflow_checks THEN [ok |-> FALSE, panic |-> "attempt to add with overflow"]
        ELSE Ok(r.wrapped)

\* Chunk::get_total_length_from_bytes on the slice, in either build, with
\* what Chunk::try_from makes of the same slice
TotalLength ==
    /\ arr.kind = "bytes"
    /\ \E overflow_checks \in BOOLEAN :
          res' = [op |-> "total_length", in |-> arr.v, checks |-> overflow_checks,
                  out |-> TotalLengthCall(arr.v, overflow_checks),
                  parsed |-> ChunkTryFrom(arr.v)]
    /\ UNCHANGED <<fs, last, arr, text, tres>>

ChunkNext == New \/ TryFrom \/ AsBytes \/ FlipAndParse \/ TotalLength

SpecChunk == ChunkInit /\ [][ChunkNext]_vars

----------------------------------------------------------------------------
(* Commands: encode, decode, remove and print on a PNG file.  OUTPUT_FILE   *)
(* of encode is FILE when it is not given (args.rs), so one file name is   *)
(* enough to run every command.                                            *)

Files == {"a.png"}

\* the most chunks of a file that encode is given
MaxChunks == 3

\* the most chunks of a file before the first command
MaxInitChunks == 2

\* "ABcd" with data "A" and "EFgh" with no data
InitChunks == {WireChunk(<<65, 66, 99, 100>>, <<65>>), WireChunk(<<69, 70, 103, 104>>, << >>)}

\* chunk type arguments: "ABcd", "EFgh", "Ru1t" (a digit), "ABc" (3 bytes)
TypeTexts == {<<65, 66, 99, 100>>, <<69, 70, 103, 104>>, <<82, 117, 49, 116>>, <<65, 66, 99>>}

\* messages: "A", "" and "é" (U+00E9)
Msgs == {<<65>>, << >>, <<233>>}

ValidFiles ==
    {Signature \o Concat(cs) : cs \in SeqsUpTo(InitChunks, MaxInitChunks)}

\* v with the byte at i replaced by its complement
Damaged(v, i) == [v EXCEPT ![i] = 255 - v[i]]

\* before the first command the file is a PNG, a PNG cut short, a PNG with
\* one byte damaged, or missing
InitFiles ==
    UNION {Prefixes(v) \cup {Damaged(v, i) : i \in 1..Len(v)} : v \in ValidFiles}
        \cup {NoFile}

Init ==
    /\ IdleChunk
    /\ IdleType
    /\ fs \in [Files -> InitFiles]
    /\ last = NoResult

\* whether the file has room for one more chunk
RoomToEncode(filename) ==
    \A read \in {read_png_from_file(fs, filename)} :
        read.ok => Len(read.val.chunks) < MaxChunks

Encode ==
    \E filename \in Files, chunk_type \in TypeTexts, msg \in Msgs, output_filename \in Files :
        /\ RoomToEncode(filename)
        /\ \E r \in {EncodeCmd(fs, filename, chunk_type, msg, output_filename)} :
              fs' = r.fs /\ last' = r.last
        /\ UNCHANGED <<arr, res, text, tres>>

Decode ==
    \E filename \in Files, chunk_type \in TypeTexts :
        /\ \E r \in {DecodeCmd(fs, filename, chunk_type)} :
              fs' = r.fs /\ last' = r.last
        /\ UNCHANGED <<arr, res, text, tres>>

Remove ==
    \E filename \in Files, chunk_type \in TypeTexts :
        /\ \E r \in {RemoveCmd(fs, filename, chunk_type)} :
              fs' = r.fs /\ last' = r.last
        /\ UNCHANGED <<arr, res, text, tres>>

PrintPng ==
    \E filename \in Files :
        /\ \E r \in {PrintCmd(fs, filename)} :
              fs' = r.fs /\ last' = r.last
        /\ UNCHANGED <<arr, res, text, tres>>

Next == Encode \/ Decode \/ Remove \/ PrintPng

Spec == Init /\ [][Next]_vars

----------------------------------------------------------------------------
(* Properties of chunk types (SpecType) *)

IsLetter(b) == b \in (65..90) \cup (97..122)

Bit5Set(b) == (b \div 32) % 2 = 1

\* the number of bytes a string takes
RECURSIVE ByteLen(_)
ByteLen(s) ==
    IF s = << >> THEN 0
    ELSE (IF Head(s) < 128 THEN 1 ELSE IF Head(s) < 2048 THEN 2 ELSE 3) + ByteLen(Tail(s))

\* C9: construction from 4 bytes succeeds iff all four are ASCII letters, and
\* bytes() of the result is the input; construction from a string fails with
\* "Invalid chunk length" when the string is not 4 bytes long and is otherwise
\* construction from the string's 4 bytes.
C9_Construction ==
    /\ tres.op = "try_from" =>
          /\ tres.out.ok <=> \A i \in 1..4 : IsLetter(tres.in[i])
          /\ ~tres.out.ok => tres.out.err = "Invalid chunk byte value"
    /\ tres.op = "from_str" =>
          IF ByteLen(tres.in) # 4
          THEN tres.out = Err("Invalid chunk length")
          ELSE /\ tres.out.ok <=> (Len(tres.in) = 4 /\ \A i \in 1..4 : IsLetter(tres.in[i]))
               /\ ~tres.out.ok => tres.out.err = "Invalid chunk byte value"
               /\ tres.out = ChunkTypeTryFrom(StrAsBytes(tres.in))
    /\ tres.op = "inspect" =>
          tres.out.bytes = (IF tres.by = "try_from" THEN tres.in ELSE StrAsBytes(tres.in))

\* a 4-byte string of 3 chars was refused for its bytes, not for its length
C9_Witness ==
    /\ tres.op = "from_str"
    /\ Len(tres.in) = 3
    /\ tres.out = Err("Invalid chunk byte value")

\* C10: critical, public and reserved-bit-valid hold iff bit 0x20 of byte 0, 1
\* and 2 is clear, safe-to-copy iff bit 0x20 of byte 3 is set, valid equals
\* reserved-bit-valid, and four letters construct whatever these bits are.
C10_PropertyBits ==
    /\ tres.op = "inspect" =>
          /\ tres.out.critical <=> ~Bit5Set(tres.ty[1])
          /\ tres.out.public <=> ~Bit5Set(tres.ty[2])
          /\ tres.out.reserved_bit_valid <=> ~Bit5Set(tres.ty[3])
          /\ tres.out.safe_to_copy <=> Bit5Set(tres.ty[4])
          /\ tres.out.valid <=> tres.out.reserved_bit_valid
    /\ (tres.op = "try_from" /\ \A i \in 1..4 : IsLetter(tres.in[i])) => tres.out.ok

\* a type with the reserved bit set was constructed and is not valid
C10_Witness ==
    /\ tres.op = "inspect"
    /\ ~tres.out.valid
    /\ tres.out.critical
    /\ ~tres.out.public
    /\ tres.out.safe_to_copy

----------------------------------------------------------------------------
(* Properties of chunks (SpecChunk) *)

\* the number a big-endian pair of bytes stands for
Be16(hi, lo) == (hi * 256) + lo

\* the length the first four bytes of b declare; a length of 2^24 or more
\* (longer than every slice here) is given as 2^24
DeclaredLength(b) ==
    IF b[1] > 0 THEN 16777216 ELSE (b[2] * 65536) + Be16(b[3], b[4])

\* C2: as_bytes of a chunk parsed from b is the first 12 + length bytes of b:
\* the big-endian length, the type bytes, the data, the big-endian crc; what
\* follows that prefix in b has no influence on the chunk.
C2_AsBytesIsParsedPrefix ==
    (res.op = "as_bytes" /\ res.by = "try_from") =>
        LET c == res.chunk
            n == Len(c.data)
        IN  /\ Len(res.out) = 12 + U32AsCount(c.length)
            /\ res.out = SubSeq(res.in, 1, 12 + U32AsCount(c.length))
            /\ DeclaredLength(res.out) = n
            /\ SubSeq(res.out, 5, 8) = c.chunk_type
            /\ SubSeq(res.out, 9, 8 + n) = c.data
            /\ Be16(res.out[9 + n], res.out[10 + n]) = c.crc.hi
            /\ Be16(res.out[11 + n], res.out[12 + n]) = c.crc.lo
            /\ ChunkTryFrom(res.out) = Ok(c)

\* a chunk with data, parsed from a slice with bytes after it, was serialized
C2_Witness ==
    /\ res.op = "as_bytes"
    /\ res.by = "try_from"
    /\ Len(res.chunk.data) = 2
    /\ Len(res.in) > Len(res.out)

\* C4: parsing the bytes of Chunk::new(t, d) succeeds with a chunk of the same
\* length, type, data and crc.
C4_NewRoundTrip ==
    (res.op = "try_from" /\ res.of # << >> /\ res.of[1] = "new") =>
        /\ res.out.ok
        /\ res.out.val.length = res.of[2].length
        /\ res.out.val.chunk_type = res.of[2].chunk_type
        /\ res.out.val.data = res.of[2].data
        /\ res.out.val.crc = res.of[2].crc

\* the bytes of a new chunk with two bytes of data were parsed
C4_Witness ==
    /\ res.op = "try_from"
    /\ res.of # << >>
    /\ res.of[1] = "new"
    /\ res.out.ok
    /\ Len(res.of[2].data) = 2

\* C5 as claimed: a chunk with one bit of its type or data flipped and its crc
\* kept fails to parse with "invalid crc".
C5_FlipGivesInvalidCrc ==
    res.op = "flip" => res.out = Err("invalid crc")

\* C5 as amended: it fails with "invalid crc" when the flipped bit is in the
\* data, or in a type byte that is still an ASCII letter, and with "error
\* creating chunk type" when the flipped type byte is no longer a letter.
C5_FlipFails ==
    res.op = "flip" =>
        IF res.pos <= 8 /\ ~IsLetter(res.in[res.pos])
        THEN res.out = Err("error creating chunk type")
        ELSE res.out = Err("invalid crc")

\* a bit of a type byte was flipped, the byte is still a letter
C5_Witness ==
    /\ res.op = "flip"
    /\ res.pos <= 8
    /\ IsLetter(res.in[res.pos])
    /\ res.out = Err("invalid crc")

TruncatedErrors ==
    {"ran out of bytes reading length", "ran out of bytes reading chunk type",
     "ran out of bytes reading chunk data", "ran out of bytes reading crc"}

\* the slice ends before one of the four fields is complete
EndsEarly(b) == Len(b) < 8 \/ Len(b) - 12 < DeclaredLength(b)

TypeBytesValid(b) == \A i \in 5..8 : IsLetter(b[i])

\* all four fields are there and the crc of type and data is the stored one
StoredCrcMatches(b) ==
    LET n == DeclaredLength(b)
    IN  ToBeBytes(ChecksumIeee(SubSeq(b, 5, 8 + n))) = SubSeq(b, 9 + n, 12 + n)

\* C8 as claimed: Truncated whenever a field is incomplete, InvalidChunkType
\* when the type bytes are not valid, CrcMismatch when the crc differs,
\* success exactly when none of these holds.
C8_ErrorsAsClaimed ==
    res.op = "try_from" =>
        LET b == res.in
        IN  /\ EndsEarly(b) => (~res.out.ok /\ res.out.err \in TruncatedErrors)
            /\ (Len(b) >= 8 /\ ~TypeBytesValid(b)) =>
                   res.out = Err("error creating chunk type")
            /\ (~EndsEarly(b) /\ ~StoredCrcMatches(b)) => res.out = Err("invalid crc")
            /\ res.out.ok <=>
                   (~EndsEarly(b) /\ TypeBytesValid(b) /\ StoredCrcMatches(b))

\* C8 as amended: the fields are taken in order and the first failure is the
\* result, so invalid type bytes give InvalidChunkType also when the data or
\* the crc is incomplete or wrong.
C8_FirstFailureInOrder ==
    res.op = "try_from" =>
        LET b == res.in
            n == DeclaredLength(b)
        IN  IF Len(b) < 4 THEN res.out = Err("ran out of bytes reading length")
            ELSE IF Len(b) < 8 THEN res.out = Err("ran out of bytes reading chunk type")
            ELSE IF ~TypeBytesValid(b) THEN res.out = Err("error creating chunk type")
            ELSE IF Len(b) - 8 < n THEN res.out = Err("ran out of bytes reading chunk data")
            ELSE IF Len(b) - 12 < n THEN res.out = Err("ran out of bytes reading crc")
            ELSE IF ~StoredCrcMatches(b) THEN res.out = Err("invalid crc")
            ELSE /\ res.out.ok
                 /\ res.out.val.chunk_type = SubSeq(b, 5, 8)
                 /\ res.out.val.data = SubSeq(b, 9, 8 + n)

\* a slice with invalid type bytes that ends before its crc was refused for
\* its type
C8_Witness ==
    /\ res.op = "try_from"
    /\ Len(res.in) >= 8
    /\ EndsEarly(res.in)
    /\ res.out = Err("error creating chunk type")

----------------------------------------------------------------------------
(* Properties of the commands and of the container (Spec) *)

Ran == last # NoResult

\* the chunks the last command parsed from its file
ChunksRead == IF Ran /\ last.read.ok THEN last.read.val.chunks ELSE << >>

\* the bytes of the file the last command read
BytesRead == last.before[last.filename]

\* the positions in cs of the chunks of the type that reads as t
OfType(cs, t) == {i \in 1..Len(cs) : <<cs[i].chunk_type[1], cs[i].chunk_type[2],
                                         cs[i].chunk_type[3], cs[i].chunk_type[4]>> = t}

\* C1: the bytes of a Png parsed from a buffer are that buffer.
C1_ParseThenSerialize ==
    (Ran /\ last.read.ok) => PngAsBytes(last.read.val) = BytesRead

\* a file of three chunks was parsed
C1_Witness ==
    /\ Ran
    /\ last.read.ok
    /\ Len(last.read.val.chunks) = 3
    /\ Len(BytesRead) > 8 + 36

ChunkIsSound(c) ==
    /\ c.crc = ChecksumIeee(c.chunk_type \o c.data)
    /\ c.length.hi = 0
    /\ c.length.lo = Len(c.data)

\* C3: every chunk, parsed, made by Chunk::new, and held by a Png after an
\* append or a removal, has the crc of its type and data and the length of
\* its data; a file whose first chunk is complete, with a valid type and a
\* stored crc that is not the one of its type and data, is refused.
C3_ChunkInvariant ==
    Ran =>
        /\ \A i \in 1..Len(ChunksRead) : ChunkIsSound(ChunksRead[i])
        /\ last.exit = 0 => \A i \in 1..Len(last.png.chunks) : ChunkIsSound(last.png.chunks[i])
        /\ (last.cmd = "encode" /\ last.exit = 0) =>
              /\ ChunkIsSound(last.chunk)
              /\ last.chunk.data = StrAsBytes(last.msg)
        /\ (/\ last.before[last.filename] # NoFile
            /\ Len(BytesRead) >= 16
            /\ SubSeq(BytesRead, 1, 8) = Signature
            /\ ~EndsEarly(Drop(BytesRead, 8))
            /\ TypeBytesValid(Drop(BytesRead, 8))
            /\ ~StoredCrcMatches(Drop(BytesRead, 8)))
               => last.read = Err(<<"Error parsing PNG", "invalid crc">>)

\* encode parsed two chunks, made a third with data and appended it
C3_Witness ==
    /\ Ran
    /\ last.cmd = "encode"
    /\ last.exit = 0
    /\ Len(last.png.chunks) = 3
    /\ Len(last.chunk.data) = 2

\* C6 as claimed: encode of a message M under a type T that no chunk of the
\* input has writes the input's bytes followed by one chunk of type T, decode
\* of the output under T gives M, and decode under a type that no chunk has
\* reports that the chunk type was not found.
C6_EncodeThenDecode ==
    /\ (Ran /\ last.cmd = "encode" /\ last.exit = 0
            /\ OfType(ChunksRead, last.chunk_type) = {}) =>
          LET out == fs[last.output_filename]
              added == Drop(out, Len(BytesRead))
              decoded == DecodeCmd(fs, last.output_filename, last.chunk_type).last
          IN  /\ SubSeq(out, 1, Len(BytesRead)) = BytesRead
              /\ ChunkTryFrom(added).ok
              /\ Len(added) = 12 + Len(ChunkTryFrom(added).val.data)
              /\ ChunkTryFrom(added).val.chunk_type = last.chunk_type
              /\ decoded.exit = 0
              /\ decoded.stdout = last.msg
    /\ (Ran /\ last.cmd = "decode" /\ last.read.ok
            /\ OfType(ChunksRead, last.chunk_type) = {}) =>
          /\ last.exit = 1
          /\ last.stderr = <<"Chunk type not found">>

\* C7: remove takes out the first chunk of the type and leaves the others,
\* later chunks of the type too, in their order, in the Png and in the file;
\* with no chunk of the type it fails and the file is as it was.
C7_RemoveFirstOnly ==
    (Ran /\ last.cmd = "remove" /\ last.read.ok) =>
        LET cs == ChunksRead
            found == OfType(cs, last.chunk_type)
        IN  IF found = {}
            THEN /\ last.exit = 1
                 /\ last.stderr = <<"Error removing chunk", "chunk not found">>
                 /\ fs = last.before
            ELSE \E i \in found :
                    /\ \A j \in found : i <= j
                    /\ last.exit = 0
                    /\ last.png.chunks =
                          [k \in 1..(Len(cs) - 1) |-> IF k < i THEN cs[k] ELSE cs[k + 1]]
                    /\ fs[last.filename] =
                          Signature \o Concat([k \in 1..(Len(cs) - 1) |->
                              as_bytes(IF k < i THEN cs[k] ELSE cs[k + 1])])
                    /\ \A other \in Files \ {last.filename} : fs[other] = last.before[other]

\* of three chunks, two of the type, the first of the type (not the first
\* chunk) was removed and the second of the type is still there
C7_Witness ==
    /\ Ran
    /\ last.cmd = "remove"
    /\ last.exit = 0
    /\ Len(ChunksRead) = 3
    /\ OfType(ChunksRead, last.chunk_type) = {2, 3}
    /\ OfType(last.png.chunks, last.chunk_type) = {2}

----------------------------------------------------------------------------
(* Claim about Chunk::get_total_length_from_bytes, checked under SpecChunk *)

\* 12 plus the big-endian value of the first four bytes of b, as a number:
\* its digits in base 2^16, the upper one not cut to 16 bits
TwelvePlusLength(b) ==
    LET lo == Be16(b[3], b[4]) + 12
    IN  [hi |-> Be16(b[1], b[2]) + (lo \div Limb), lo |-> lo % Limb]

\* the total fits 32 bits
TotalFits(b) == TwelvePlusLength(b).hi < Limb

\* the number of bytes Chunk::try_from read for the chunk c it returned:
\* the three 4-byte fields and the data
BytesParsed(c) == 12 + Len(c.data)

\* C11 (as stated): for every slice of at least 4 bytes
\* get_total_length_from_bytes returns 12 plus the big-endian u32 value of
\* the first four bytes, for every length up to 2^32-1 without overflow, and
\* that is the number of bytes Chunk::try_from reads when it succeeds on the
\* slice; for a shorter slice it returns "ran out of bytes reading length".
C11_TotalLength ==
    res.op = "total_length" =>
        IF Len(res.in) < 4
        THEN res.out = Err("ran out of bytes reading length")
        ELSE /\ res.out.ok
             /\ res.out.val = TwelvePlusLength(res.in)
             /\ res.parsed.ok =>
                    res.out.val = [hi |-> 0, lo |-> BytesParsed(res.parsed.val)]

\* the same for the lengths up to 2^32 - 13 only, whose total fits a u32
C11_TotalLengthWhenItFits ==
    (res.op = "total_length" /\ (Len(res.in) >= 4 => TotalFits(res.in))) =>
        IF Len(res.in) < 4
        THEN res.out = Err("ran out of bytes reading length")
        ELSE /\ res.out.ok
             /\ res.out.val = TwelvePlusLength(res.in)
             /\ res.parsed.ok =>
                    res.out.val = [hi |-> 0, lo |-> BytesParsed(res.parsed.val)]

\* a length of 2^32 - 12 or more: the call panics or returns a wrapped total
C11_Overflowed ==
    /\ res.op = "total_length"
    /\ Len(res.in) >= 4
    /\ ~TotalFits(res.in)
    /\ IF res.checks THEN ~res.out.ok
       ELSE res.out.ok /\ res.out.val.hi = 0 /\ res.out.val.lo < 12

====
